---------------------------- MODULE Spec2Model ----------------------------
(***************************************************************************)
(* A model of the query/filter compiler (pkg/models/querybuilder_sql.go),  *)
(* of the studio query builder built on it, and of the auto-tag scenario   *)
(* of the integration test.                                                *)
(*                                                                         *)
(* Text (SQL, search strings, paths) is a sequence of atoms: each fixed    *)
(* fragment of the source is one atom or a few, every character that comes *)
(* from a caller (a search string, a name, a path) is an atom of its own,  *)
(* and "?" is always an atom of its own.  String concatenation is \o.      *)
(* A Go pointer is a sequence of length 0 (nil) or 1 (the value).          *)
(***************************************************************************)
EXTENDS Integers, Sequences, FiniteSets, TLC

VARIABLES
    call,   \* the pure function under test and its arguments
    ret,    \* <<>> before it returned, <<value>> after
    db,     \* the store: the committed rows
    tx,     \* the writer's transaction: its view of the rows, or closed
    wr,     \* the writing unit of work (Create / Update / Destroy)
    rd,     \* the reading unit of work (StudioQueryBuilder.Query)
    at      \* the auto-tag scenario

vars == <<call, ret, db, tx, wr, rd, at>>

-----------------------------------------------------------------------------
(* Bounds of the model *)

MaxPage == 3
MaxPerPage == 3
MaxValues == 3
MaxClauses == 2

-----------------------------------------------------------------------------
(* Go values *)

Nil == <<>>
Ptr(v) == <<v>>
Deref(p) == p[1]

\* Go's int on a 32-bit build (GOARCH=386, arm): two's complement, 32 bits.
\* The values are kept in 16-bit halves so that no intermediate result leaves
\* the range of the checker's own integers.
Half == 2^16
MaxInt == (2^30 - 1) + 2^30
MinInt == (-MaxInt) - 1

\* The 32-bit pattern <<high half, low half>> read as a signed int.
Signed(hi, lo) ==
    IF hi >= Half \div 2 THEN (hi - Half) * Half + lo ELSE hi * Half + lo

\* a * b for 0 <= a <= MaxInt and 0 <= b < 2^15, wrapped to 32 bits.
MulInt(a, b) ==
    LET ah == a \div Half
        al == a % Half
        t0 == al * b
        t1 == ah * b + (t0 \div Half)
    IN  Signed(t1 % Half, t0 % Half)

-----------------------------------------------------------------------------
(* Strings *)

RECURSIVE Repeat(_, _)
\* strings.Repeat
Repeat(s, n) == IF n <= 0 THEN <<>> ELSE s \o Repeat(s, n - 1)

RECURSIVE TrimRight(_, _)
\* strings.TrimRight: drops every trailing character of the cutset
TrimRight(s, cutset) ==
    IF Len(s) > 0 /\ s[Len(s)] \in cutset
    THEN TrimRight(SubSeq(s, 1, Len(s) - 1), cutset)
    ELSE s

RECURSIVE TrimLeft(_, _)
TrimLeft(s, cutset) ==
    IF Len(s) > 0 /\ s[1] \in cutset
    THEN TrimLeft(SubSeq(s, 2, Len(s)), cutset)
    ELSE s

\* strings.Trim
Trim(s, cutset) == TrimRight(TrimLeft(s, cutset), cutset)

RECURSIVE Join(_, _)
\* strings.Join
Join(parts, sep) ==
    IF Len(parts) = 0 THEN <<>>
    ELSE IF Len(parts) = 1 THEN parts[1]
    ELSE parts[1] \o sep \o Join(Tail(parts), sep)

RECURSIVE Split(_, _)
\* strings.Split on a one-character separator: n separators give n+1 parts,
\* empty parts included.
Split(s, sep) ==
    IF \A i \in 1..Len(s) : s[i] # sep THEN <<s>>
    ELSE LET i == CHOOSE k \in 1..Len(s) :
                      s[k] = sep /\ \A j \in 1..(k - 1) : s[j] # sep
         IN  <<SubSeq(s, 1, i - 1)>> \o Split(SubSeq(s, i + 1, Len(s)), sep)

\* strings.Contains
Contains(s, sub) ==
    \E i \in 0..(Len(s) - Len(sub)) : SubSeq(s, i + 1, i + Len(sub)) = sub

RECURSIVE Count(_, _)
\* the number of atoms of s equal to c
Count(s, c) ==
    IF Len(s) = 0 THEN 0
    ELSE (IF s[1] = c THEN 1 ELSE 0) + Count(Tail(s), c)

Digit == <<"0", "1", "2", "3", "4", "5", "6", "7", "8", "9">>

RECURSIVE ItoaNat(_)
ItoaNat(n) ==
    IF n < 10 THEN <<Digit[n + 1]>>
    ELSE ItoaNat(n \div 10) \o <<Digit[(n % 10) + 1]>>

\* strconv.Itoa
Itoa(n) ==
    IF n = MinInt THEN <<"-">> \o ItoaNat(MaxInt \div 10) \o <<"8">>
    ELSE IF n < 0 THEN <<"-">> \o ItoaNat(-n)
    ELSE ItoaNat(n)

DigitValue(c) == (CHOOSE d \in 1..10 : Digit[d] = c) - 1

RECURSIVE AtoiNat(_)
AtoiNat(s) ==
    IF Len(s) = 0 THEN 0
    ELSE AtoiNat(SubSeq(s, 1, Len(s) - 1)) * 10 + DigitValue(s[Len(s)])

\* The store's reading of an integer literal.
Atoi(s) == IF Len(s) > 0 /\ s[1] = "-" THEN -AtoiNat(Tail(s)) ELSE AtoiNat(s)

IndexOf(s, c) == CHOOSE k \in 1..Len(s) : s[k] = c /\ \A j \in 1..(k - 1) : s[j] # c

-----------------------------------------------------------------------------
(* Pagination *)

DefaultPerPage == 25
PerPageLimit == 120

ResolvedPage(findFilter) ==
    IF findFilter.Page = Nil \/ Deref(findFilter.Page) < 1
    THEN 1
    ELSE Deref(findFilter.Page)

ResolvedPerPage(findFilter) ==
    LET perPage == IF findFilter.PerPage = Nil
                   THEN DefaultPerPage
                   ELSE Deref(findFilter.PerPage)
    IN  IF perPage > PerPageLimit THEN PerPageLimit
        ELSE IF perPage < 1 THEN 1
        ELSE perPage

getPagination(findFilter) ==
    LET page == ResolvedPage(findFilter)
        perPage == ResolvedPerPage(findFilter)
        offset == MulInt(page - 1, perPage)
    IN  <<" LIMIT ">> \o Itoa(perPage) \o <<" OFFSET ">> \o Itoa(offset) \o <<" ">>

\* The LIMIT and OFFSET a statement carries, as the store reads them.
ParsePagination(text) ==
    LET l == IndexOf(text, " LIMIT ")
        o == IndexOf(text, " OFFSET ")
    IN  [limit  |-> Atoi(SubSeq(text, l + 1, o - 1)),
         offset |-> Atoi(SubSeq(text, o + 1, Len(text) - 1))]

PaginationCalls ==
    LET PageValues ==
            (-1..MaxPage) \cup {MaxInt \div PerPageLimit + 1, MaxInt \div PerPageLimit + 2,
                                MaxInt - 1, MaxInt, MinInt}
        PerPageValues ==
            (-1..MaxPerPage) \cup {PerPageLimit - 1, PerPageLimit, PerPageLimit + 1,
                                   MaxInt, MinInt}
    IN  [fn : {"getPagination"},
         Page : {Nil} \cup {Ptr(p) : p \in PageValues},
         PerPage : {Nil} \cup {Ptr(p) : p \in PerPageValues}]

-----------------------------------------------------------------------------
(* Criterion modifiers *)

\* The eight comparison operators of the modifier enumeration.
ValidModifiers ==
    {"EQUALS", "NOT_EQUALS", "GREATER_THAN", "LESS_THAN", "IS_NULL", "NOT_NULL",
     "INCLUDES", "EXCLUDES"}

\* A modifier that is no member of the enumeration.
Modifiers == ValidModifiers \cup {"INVALID"}

IsValid(criterionModifier) == criterionModifier \in ValidModifiers

\* A criterion value: a []string, a []int, or one value that is no collection.
StringsValue(n) == [kind |-> "[]string", elems |-> [i \in 1..n |-> "s"]]
IntsValue(n) == [kind |-> "[]int", elems |-> [i \in 1..n |-> i]]
ScalarValue == [kind |-> "int", elems |-> <<7>>]

CriterionValues ==
    {StringsValue(n) : n \in 0..MaxValues} \cup {IntsValue(n) : n \in 0..MaxValues}
        \cup {ScalarValue}

\* A rendered criterion: the fragment, the argument count, and whether
\* logger.Errorf was called.
Rendered(sql, count, logged) == [sql |-> sql, count |-> count, logged |-> logged]

getInBindingM(length) ==
    <<"(">> \o Repeat(<<"?", ",", " ">>, length - 1) \o <<"?">> \o <<")">>
getInBinding(length) ==
    LET bindings == TrimRight(Repeat(<<"?", ",", " ">>, length), {",", " "})
    IN  <<"(">> \o bindings \o <<")">>

getSimpleCriterionClause(criterionModifier, rhs) ==
    IF IsValid(criterionModifier)
    THEN CASE criterionModifier = "EQUALS" -> Rendered(<<"= ">> \o rhs, 1, FALSE)
           [] criterionModifier = "NOT_EQUALS" -> Rendered(<<"!= ">> \o rhs, 1, FALSE)
           [] criterionModifier = "GREATER_THAN" -> Rendered(<<"> ">> \o rhs, 1, FALSE)
           [] criterionModifier = "LESS_THAN" -> Rendered(<<"< ">> \o rhs, 1, FALSE)
           [] criterionModifier = "IS_NULL" -> Rendered(<<"IS NULL">>, 0, FALSE)
           [] criterionModifier = "NOT_NULL" -> Rendered(<<"IS NOT NULL">>, 0, FALSE)
           [] OTHER -> Rendered(<<"= ", "?">>, 1, TRUE)
    ELSE Rendered(<<"= ", "?">>, 1, FALSE)

getCriterionModifierBinding(criterionModifier, value) ==
    LET length == IF value.kind \in {"[]string", "[]int"} THEN Len(value.elems) ELSE 1
    IN  IF IsValid(criterionModifier)
        THEN CASE criterionModifier \in {"EQUALS", "NOT_EQUALS", "GREATER_THAN",
                                         "LESS_THAN", "IS_NULL", "NOT_NULL"} ->
                      getSimpleCriterionClause(criterionModifier, <<"?">>)
               [] criterionModifier = "INCLUDES" ->
                      Rendered(<<"IN ">> \o getInBinding(length), length, FALSE)
               [] criterionModifier = "EXCLUDES" ->
                      Rendered(<<"NOT IN ">> \o getInBinding(length), length, FALSE)
               [] OTHER -> Rendered(<<"= ", "?">>, 1, TRUE)
        ELSE Rendered(<<"= ", "?">>, 1, FALSE)

CriterionCalls ==
    [fn : {"getCriterionModifierBinding"}, modifier : Modifiers, value : CriterionValues]

-----------------------------------------------------------------------------
(* Query fragments *)

\* Table and column names are text: the table studios is <<"studios">>.
getColumn(tableName, columnName) == tableName \o <<".">> \o columnName

selectAll(tableName) ==
    <<"SELECT ">> \o getColumn(tableName, <<"*">>) \o <<" FROM ">> \o tableName \o <<" ">>

selectDistinctIDs(tableName) ==
    <<"SELECT DISTINCT ">> \o getColumn(tableName, <<"id">>) \o <<" FROM ">> \o tableName
        \o <<" ">>

buildCountQuery(query) == <<"SELECT COUNT(*) as count FROM (">> \o query \o <<") as temp">>

\* A sort key is text too: "scenes_count" is <<"scenes", "_", "count">>.
getSort(sort, direction, tableName) ==
    LET dir == IF direction # "ASC" /\ direction # "DESC" THEN "ASC" ELSE direction
    IN  IF Contains(sort, <<"_", "count">>)
        THEN <<" ORDER BY COUNT(distinct ">> \o getColumn(Split(sort, "_")[1], <<"id">>)
                 \o <<") ", dir>>
        ELSE IF sort = <<"filesize">>
        THEN <<" ORDER BY cast(">> \o getColumn(tableName, <<"size">>) \o <<" as integer) ", dir>>
        ELSE IF sort = <<"random">>
        THEN <<" ORDER BY ", "(substr(">> \o getColumn(tableName, <<"id">>)
                 \o <<" * ", "randomSortFloat", ", length(">> \o getColumn(tableName, <<"id">>)
                 \o <<") + 2))", " ", dir>>
        ELSE LET colName == getColumn(tableName, sort)
                 additional ==
                     IF tableName = <<"scenes">>
                     THEN <<", bitrate DESC, framerate DESC, rating DESC, duration DESC">>
                     ELSE IF tableName = <<"scene_markers">>
                     THEN <<", scene_markers.scene_id ASC, scene_markers.seconds ASC">>
                     ELSE <<>>
             IN  IF sort = <<"name">>
                 THEN <<" ORDER BY ">> \o colName \o <<" COLLATE NOCASE ", dir>> \o additional
                 ELSE <<" ORDER BY ">> \o colName \o <<" ", dir>> \o additional

\* The LIKE clauses of getSearch, the search text written into the statement.
RECURSIVE LikesOf(_, _)
LikesOf(words, columns) ==
    IF Len(words) = 0 THEN <<>>
    ELSE [c \in 1..Len(columns) |-> <<columns[c], " LIKE '%">> \o words[1] \o <<"%'">>]
             \o LikesOf(Tail(words), columns)

getSearch(columns, q) ==
    LET queryWords == Split(q, " ")
        trimmedQuery == Trim(q, {"\""})
        likeClauses == IF trimmedQuery = q
                       THEN LikesOf(queryWords, columns)
                       ELSE LikesOf(<<trimmedQuery>>, columns)
    IN  <<"(">> \o Join(likeClauses, <<" OR ">>) \o <<")">>

\* The body both statements of a find are built from.
FindBody(tableName, body, whereClauses, havingClauses) ==
    LET b1 == IF Len(whereClauses) > 0
              THEN body \o <<" WHERE ">> \o Join(whereClauses, <<" AND ">>)
              ELSE body
        b2 == b1 \o <<" GROUP BY ">> \o tableName \o <<".id ">>
    IN  IF Len(havingClauses) > 0
        THEN b2 \o <<" HAVING ">> \o Join(havingClauses, <<" AND ">>)
        ELSE b2

-----------------------------------------------------------------------------
(* The filter of a request *)

EmptyFilter == [Q |-> Nil, Page |-> Nil, PerPage |-> Nil, Sort |-> Nil, Direction |-> Nil]

GetSort(findFilter, defaultSort) ==
    IF findFilter.Sort = Nil THEN defaultSort ELSE Deref(findFilter.Sort)

GetDirection(findFilter) ==
    IF findFilter.Direction = Nil THEN "ASC" ELSE Deref(findFilter.Direction)

\* A nil filter sorts by name, ascending.
getStudioSort(findFilter) ==
    IF findFilter = Nil
    THEN getSort(<<"name">>, "ASC", <<"studios">>)
    ELSE getSort(GetSort(Deref(findFilter), <<"name">>), GetDirection(Deref(findFilter)),
                 <<"studios">>)

\* What StudioQueryBuilder.Query hands to executeFindQuery.
StudioQueryParts(findFilter) ==
    LET f == IF findFilter = Nil THEN EmptyFilter ELSE Deref(findFilter)
    IN  [tableName |-> <<"studios">>,
         body |-> selectDistinctIDs(<<"studios">>)
                      \o <<" left join scenes on studios.id = scenes.studio_id ">>,
         args |-> <<>>,
         whereClauses |-> IF f.Q # Nil /\ Deref(f.Q) # <<>>
                          THEN <<getSearch(<<"studios.name">>, Deref(f.Q))>>
                          ELSE <<>>,
         havingClauses |-> <<>>,
         sortAndPagination |-> getStudioSort(Ptr(f)) \o getPagination(f)]

\* The two statements of executeFindQuery.
Statement(text, args) == [text |-> text, args |-> args]

CountStatement(p) ==
    Statement(buildCountQuery(FindBody(p.tableName, p.body, p.whereClauses, p.havingClauses)),
              p.args)

IdsStatementM(p) ==
    Statement(FindBody(p.tableName, p.body, <<>>, p.havingClauses) \o p.sortAndPagination,
              p.args)
IdsStatement(p) ==
    Statement(FindBody(p.tableName, p.body, p.whereClauses, p.havingClauses)
                  \o p.sortAndPagination,
              p.args)

-----------------------------------------------------------------------------
(* Rows and entities *)

\* A column holds NULL (<<>>) or one value (<<v>>).
NULL == <<>>

\* sql.NullString
NullString(valid, string) == [Valid |-> valid, String |-> string]

\* models.Studio as Go holds it, and the row of the studios table it is
\* written to and scanned from.
Studio(id, image, checksum, name, url, createdAt, updatedAt) ==
    [ID |-> id, Image |-> image, Checksum |-> checksum, Name |-> name, URL |-> url,
     CreatedAt |-> createdAt, UpdatedAt |-> updatedAt]

\* The value the driver binds for a field of each Go type.
NullStringValue(ns) == IF ns.Valid THEN <<ns.String>> ELSE NULL
BytesValue(b) == IF b = Nil THEN NULL ELSE <<Deref(b)>>

\* The named parameters of a statement executed with a Studio.
StudioParams(studio) ==
    [id |-> <<studio.ID>>,
     image |-> BytesValue(studio.Image),
     checksum |-> <<studio.Checksum>>,
     name |-> NullStringValue(studio.Name),
     url |-> NullStringValue(studio.URL),
     created_at |-> <<studio.CreatedAt>>,
     updated_at |-> <<studio.UpdatedAt>>]

\* StructScan: the Studio a row is scanned into.
ScanNullString(col) == IF col = NULL THEN NullString(FALSE, <<>>) ELSE NullString(TRUE, col[1])
ScanBytes(col) == IF col = NULL THEN Nil ELSE Ptr(col[1])

ScanStudio(row) ==
    Studio(row.id[1], ScanBytes(row.image), row.checksum[1], ScanNullString(row.name),
           ScanNullString(row.url), row.created_at[1], row.updated_at[1])

-----------------------------------------------------------------------------
(* The store's reading of the statements of a find *)

\* The characters a caller's text is made of, in collation order.
Rank(c) ==
    LET Alphabet == <<" ", "\"", "'", "a", "b">>
    IN  CHOOSE k \in 1..Len(Alphabet) : Alphabet[k] = c

RECURSIVE LessText(_, _)
LessText(a, b) ==
    IF Len(a) = 0 THEN Len(b) > 0
    ELSE IF Len(b) = 0 THEN FALSE
    ELSE IF a[1] = b[1] THEN LessText(Tail(a), Tail(b))
    ELSE Rank(a[1]) < Rank(b[1])

\* A string literal '%w%' as the SQL lexer reads it: '' is one quote, and a
\* quote on its own ends the literal, which leaves a statement that does not
\* parse.
RECURSIVE SqlLiteral(_)
SqlLiteral(w) ==
    IF Len(w) = 0 THEN [ok |-> TRUE, s |-> <<>>]
    ELSE IF w[1] = "'"
    THEN IF Len(w) >= 2 /\ w[2] = "'"
         THEN LET rest == SqlLiteral(SubSeq(w, 3, Len(w)))
              IN  [ok |-> rest.ok, s |-> <<"'">> \o rest.s]
         ELSE [ok |-> FALSE, s |-> <<>>]
    ELSE LET rest == SqlLiteral(Tail(w))
         IN  [ok |-> rest.ok, s |-> <<w[1]>> \o rest.s]

HasAtom(text, a) == \E i \in 1..Len(text) : text[i] = a

\* The text between WHERE and GROUP BY: one parenthesised search clause.
WhereOf(text) == SubSeq(text, IndexOf(text, " WHERE ") + 1, IndexOf(text, " GROUP BY ") - 1)

\* The literals of the LIKE clauses of a statement, as written.
LikeLiterals(text) ==
    IF ~HasAtom(text, " WHERE ") THEN <<>>
    ELSE LET w == WhereOf(text)
             clauses == Split(SubSeq(w, 2, Len(w) - 1), " OR ")
         IN  [i \in 1..Len(clauses) |-> SubSeq(clauses[i], 3, Len(clauses[i]) - 1)]

Parses(text) ==
    \A i \in 1..Len(LikeLiterals(text)) : SqlLiteral(LikeLiterals(text)[i]).ok

\* The rows a statement's WHERE keeps: a NULL name matches no LIKE.
Matches(row, text) ==
    \/ ~HasAtom(text, " WHERE ")
    \/ /\ row.name # NULL
       /\ \E i \in 1..Len(LikeLiterals(text)) :
              Contains(row.name[1], SqlLiteral(LikeLiterals(text)[i]).s)

Matching(text, rows) == {r \in rows : Matches(r, text)}

\* ORDER BY studios.name COLLATE NOCASE: NULL first, then by name, rows of
\* one name by id.
RowBefore(r1, r2) ==
    IF r1.name = r2.name THEN r1.id[1] < r2.id[1]
    ELSE IF r1.name = NULL THEN TRUE
    ELSE IF r2.name = NULL THEN FALSE
    ELSE LessText(r1.name[1], r2.name[1])

RECURSIVE SortIds(_)
SortIds(rows) ==
    IF rows = {} THEN <<>>
    ELSE LET m == CHOOSE r \in rows : \A o \in rows \ {r} : RowBefore(r, o)
         IN  <<m.id[1]>> \o SortIds(rows \ {m})

Reverse(s) == [i \in 1..Len(s) |-> s[Len(s) + 1 - i]]

Min(a, b) == IF a < b THEN a ELSE b

\* LIMIT and OFFSET: a negative OFFSET skips nothing, a negative LIMIT is none.
PageOf(ids, limit, offset) ==
    LET from == IF offset < 0 THEN 0 ELSE offset
        upto == IF limit < 0 THEN Len(ids) ELSE Min(Len(ids), from + limit)
    IN  SubSeq(ids, from + 1, upto)

\* What the driver answers to the count statement and to the id-list
\* statement: any statement may fail (the store is unreachable, the text does
\* not parse), and an empty result may be reported as sql.ErrNoRows.
StoreCount(stmt, rows) ==
    {[err |-> "error", count |-> 0]} \cup
    (IF ~Parses(stmt.text) THEN {}
     ELSE LET n == Cardinality(Matching(stmt.text, rows))
          IN  {[err |-> "nil", count |-> n]} \cup
              (IF n = 0 THEN {[err |-> "ErrNoRows", count |-> 0]} ELSE {}))

StoreIds(stmt, rows) ==
    {[err |-> "error", ids |-> <<>>]} \cup
    (IF ~Parses(stmt.text) THEN {}
     ELSE LET all == SortIds(Matching(stmt.text, rows))
              ordered == IF HasAtom(stmt.text, "DESC") THEN Reverse(all) ELSE all
              p == ParsePagination(stmt.text)
              page == PageOf(ordered, p.limit, p.offset)
          IN  {[err |-> "nil", ids |-> page]} \cup
              (IF page = <<>> THEN {[err |-> "ErrNoRows", ids |-> <<>>]} ELSE {}))

\* What the driver answers to a lookup by id.
FindStatement(id) ==
    Statement(<<"SELECT * FROM studios WHERE id = ", "?", " LIMIT 1">>, <<id>>)

StoreRows(stmt, rows) ==
    {[err |-> "error", rows |-> <<>>]} \cup
    {[err |-> "nil", rows |-> SortIds({r \in rows : r.id[1] = stmt.args[1]})]}

RowOf(id, rows) == CHOOSE r \in rows : r.id[1] = id

-----------------------------------------------------------------------------
(* runCountQuery, runIdsQuery, queryStudio *)

\* sql.ErrNoRows is no failure: the zero result stands.
runCountQuery(answer) ==
    IF answer.err # "nil" /\ answer.err # "ErrNoRows"
    THEN [result |-> 0, err |-> answer.err]
    ELSE [result |-> answer.count, err |-> "nil"]

runIdsQuery(answer) ==
    IF answer.err # "nil" /\ answer.err # "ErrNoRows"
    THEN [result |-> <<>>, err |-> answer.err]
    ELSE [result |-> answer.ids, err |-> "nil"]

\* queryStudio: the first row scanned, or nil when there is none or the
\* lookup failed.
queryStudio(answer, rows) ==
    IF answer.err # "nil" /\ answer.err # "ErrNoRows"
    THEN [studio |-> Nil, err |-> answer.err]
    ELSE IF Len(answer.rows) < 1
    THEN [studio |-> Nil, err |-> "nil"]
    ELSE [studio |-> Ptr(ScanStudio(RowOf(answer.rows[1], rows))), err |-> "nil"]

-----------------------------------------------------------------------------
(* sqlGenKeys *)

\* One field of a struct: its db tag, its Go type and its value.
Field(key, type, v) == [key |-> key, type |-> type, v |-> v]

NullableTypes == {"SQLiteDate", "NullString", "NullBool", "NullInt64", "NullFloat64"}

\* Whether sqlGenKeys writes "key=:key" for a field that is not the id.
KeyIncludedM(f, partial) ==
    CASE f.type = "string" -> partial \/ f.v # ""
      [] f.type \in {"int", "float64", "SQLiteTimestamp"} -> partial \/ f.v # 0
      [] f.type \in NullableTypes -> partial \/ f.v.String # <<>>
      [] OTHER -> f.v # Nil
KeyIncluded(f, partial) ==
    CASE f.type = "string" -> partial \/ f.v # ""
      [] f.type \in {"int", "float64", "SQLiteTimestamp"} -> partial \/ f.v # 0
      [] f.type \in NullableTypes -> partial \/ f.v.Valid
      [] OTHER -> f.v # Nil

RECURSIVE GenKeys(_, _)
GenKeys(fields, partial) ==
    IF Len(fields) = 0 THEN <<>>
    ELSE LET f == fields[1]
             rest == GenKeys(Tail(fields), partial)
         IN  IF f.key = "id" THEN rest
             ELSE IF KeyIncluded(f, partial) THEN <<<<f.key, "=:", f.key>>>> \o rest
             ELSE rest

sqlGenKeys(fields, partial) == Join(GenKeys(fields, partial), <<", ">>)
SQLGenKeys(fields) == sqlGenKeys(fields, FALSE)
SQLGenKeysPartial(fields) == sqlGenKeys(fields, TRUE)

\* The fields of models.Studio, in the order of the struct.
StudioFields(studio) ==
    <<Field("id", "int", studio.ID),
      Field("image", "[]byte", studio.Image),
      Field("checksum", "string", studio.Checksum),
      Field("name", "NullString", studio.Name),
      Field("url", "NullString", studio.URL),
      Field("created_at", "SQLiteTimestamp", studio.CreatedAt),
      Field("updated_at", "SQLiteTimestamp", studio.UpdatedAt)>>

-----------------------------------------------------------------------------
(* The statements of Create, Update and Destroy, and the store's reading *)

InsertStatement(newStudio) ==
    Statement(<<"INSERT INTO studios (image, checksum, name, url, created_at, updated_at) ",
                "VALUES (:image, :checksum, :name, :url, :created_at, :updated_at)">>,
              StudioParams(newStudio))

UpdateStatement(updatedStudio) ==
    Statement(<<"UPDATE studios SET ">> \o SQLGenKeys(StudioFields(updatedStudio))
                  \o <<" WHERE studios.id = :id">>,
              StudioParams(updatedStudio))

GetStatement(id) ==
    Statement(<<"SELECT * FROM studios WHERE id = ", "?", " LIMIT 1">>, <<id>>)

ClearScenesStatement(id) ==
    Statement(<<"UPDATE scenes SET studio_id = null WHERE studio_id = ", "?">>, <<id>>)

ClearScrapedStatement(id) ==
    Statement(<<"UPDATE scraped_items SET studio_id = null WHERE studio_id = ", "?">>, <<id>>)

DeleteStatement(tableName, id) ==
    Statement(<<"DELETE FROM ">> \o tableName \o <<" WHERE ">>
                  \o getColumn(tableName, <<"id">>) \o <<" = ", "?">>,
              <<id>>)

\* The row an INSERT of these parameters makes, under a new id.
InsertedRowM(id, params) ==
    [id |-> <<id>>, image |-> params.image, checksum |-> params.checksum,
     name |-> NULL, url |-> params.url,
     created_at |-> params.created_at, updated_at |-> params.updated_at]
InsertedRow(id, params) ==
    [id |-> <<id>>, image |-> params.image, checksum |-> params.checksum,
     name |-> params.name, url |-> params.url,
     created_at |-> params.created_at, updated_at |-> params.updated_at]

\* The columns the SET clause of an UPDATE names.
SetKeys(text) ==
    LET parts == Split(SubSeq(text, 2, Len(text) - 1), ", ")
    IN  {parts[i][1] : i \in {j \in 1..Len(parts) : Len(parts[j]) > 0}}

\* An UPDATE with an empty SET clause does not parse.
UpdateParses(text) == Len(text) > 2

UpdatedRow(row, stmt) ==
    [c \in DOMAIN row |-> IF c \in SetKeys(stmt.text) THEN stmt.args[c] ELSE row[c]]

UpdatedRows(rows, stmt) ==
    {IF r.id = stmt.args.id THEN UpdatedRow(r, stmt) ELSE r : r \in rows}

\* studio_id = null WHERE studio_id = ?
ClearedM(refs, id) == refs
Cleared(refs, id) == [i \in DOMAIN refs |-> IF refs[i] = <<id>> THEN NULL ELSE refs[i]]

-----------------------------------------------------------------------------
(* Create, Update, Destroy: the writing unit of work *)

MaxStudios == 2
MaxCalls == 2

NoStudio == Studio(0, Nil, "", NullString(FALSE, <<>>), NullString(FALSE, <<>>), 0, 0)

TxClosed == [open |-> FALSE, studios |-> {}, scenes |-> <<>>, scraped |-> <<>>, lastId |-> 0]

WrIdle ==
    [pc |-> "idle", op |-> "none", tx |-> FALSE, studio |-> NoStudio, id |-> 0,
     stmts |-> <<>>, result |-> Nil, err |-> "nil", deleted |-> FALSE, calls |-> 0]

\* A call by the writer: everything of the call before is forgotten.
Called(op, hasTx, studio, id, pc) ==
    [WrIdle EXCEPT !.op = op, !.tx = hasTx, !.studio = studio, !.id = id, !.pc = pc,
                   !.calls = wr.calls + 1]

\* ensureTx, and the check of executeDeleteQuery: a nil transaction panics.
ensureTx(hasTx) == IF hasTx THEN "ok" ELSE "panic"

\* A method of *sqlx.Tx called on a nil transaction dereferences nil: a
\* run-time panic before any statement is sent.
NilReceiverM(hasTx) == FALSE
NilReceiver(hasTx) == ~hasTx

\* The rows the statements of the writer see and change: those of its
\* transaction.
Cur == IF wr.tx THEN [studios |-> tx.studios, scenes |-> tx.scenes,
                      scraped |-> tx.scraped, lastId |-> tx.lastId]
       ELSE db

Write(new) ==
    IF wr.tx
    THEN /\ tx' = [open |-> TRUE, studios |-> new.studios, scenes |-> new.scenes,
                   scraped |-> new.scraped, lastId |-> new.lastId]
         /\ db' = db
    ELSE /\ db' = new
         /\ tx' = tx

Panic == wr' = [wr EXCEPT !.pc = "panic"] /\ UNCHANGED <<db, tx>>

Return(stmt, result, err) ==
    wr' = [wr EXCEPT !.pc = "returned", !.stmts = Append(@, stmt),
                     !.result = result, !.err = err]

\* database.DB.MustBeginTx by the caller
BeginTx ==
    /\ wr.pc = "idle"
    /\ ~tx.open
    /\ tx' = [open |-> TRUE, studios |-> db.studios, scenes |-> db.scenes,
              scraped |-> db.scraped, lastId |-> db.lastId]
    /\ wr' = [wr EXCEPT !.pc = "ready"]
    /\ UNCHANGED <<call, ret, db, rd, at>>

CreateCall(newStudio, hasTx) ==
    /\ wr.pc = IF hasTx THEN "ready" ELSE "idle"
    /\ wr.calls < MaxCalls
    /\ hasTx => tx.lastId < MaxStudios
    /\ wr' = Called("Create", hasTx, newStudio, 0,
                    IF ensureTx(hasTx) = "panic" THEN "panic" ELSE "create.insert")
    /\ UNCHANGED <<call, ret, db, tx, rd, at>>

\* tx.NamedExec(INSERT ...) and result.LastInsertId()
CreateInsert ==
    /\ wr.pc = "create.insert"
    /\ IF NilReceiver(wr.tx) THEN Panic
       ELSE \E execOk \in BOOLEAN, idOk \in BOOLEAN :
                LET stmt == InsertStatement(wr.studio)
                    id == Cur.lastId + 1
                IN  IF ~execOk
                    THEN Return(stmt, Nil, "error") /\ UNCHANGED <<db, tx>>
                    ELSE /\ Write([Cur EXCEPT !.studios = @ \cup {InsertedRow(id, stmt.args)},
                                              !.lastId = id])
                         /\ IF idOk
                            THEN wr' = [wr EXCEPT !.pc = "create.get", !.id = id,
                                                  !.stmts = Append(@, stmt)]
                            ELSE Return(stmt, Nil, "error")
    /\ UNCHANGED <<call, ret, rd, at>>

\* tx.Get(&studio, SELECT ... WHERE id = ?): the row read back, or the error.
ReadBack ==
    IF NilReceiver(wr.tx) THEN Panic
    ELSE /\ \E ok \in BOOLEAN :
                LET stmt == GetStatement(wr.id)
                    found == {r \in Cur.studios : r.id = <<wr.id>>}
                IN  IF ~ok THEN Return(stmt, Nil, "error")
                    ELSE IF found = {} THEN Return(stmt, Nil, "ErrNoRows")
                    ELSE Return(stmt, Ptr(ScanStudio(CHOOSE r \in found : TRUE)), "nil")
         /\ UNCHANGED <<db, tx>>

CreateGet ==
    /\ wr.pc = "create.get"
    /\ ReadBack
    /\ UNCHANGED <<call, ret, rd, at>>

UpdateCall(updatedStudio, hasTx) ==
    /\ wr.pc = IF hasTx THEN "ready" ELSE "idle"
    /\ wr.calls < MaxCalls
    /\ wr' = Called("Update", hasTx, updatedStudio, updatedStudio.ID,
                    IF ensureTx(hasTx) = "panic" THEN "panic" ELSE "update.exec")
    /\ UNCHANGED <<call, ret, db, tx, rd, at>>

\* tx.NamedExec(UPDATE studios SET <keys> WHERE studios.id = :id)
UpdateExec ==
    /\ wr.pc = "update.exec"
    /\ IF NilReceiver(wr.tx) THEN Panic
       ELSE \E execOk \in BOOLEAN :
                LET stmt == UpdateStatement(wr.studio)
                IN  IF ~execOk \/ ~UpdateParses(stmt.text)
                    THEN Return(stmt, Nil, "error") /\ UNCHANGED <<db, tx>>
                    ELSE /\ Write([Cur EXCEPT !.studios = UpdatedRows(@, stmt)])
                         /\ wr' = [wr EXCEPT !.pc = "update.get",
                                             !.stmts = Append(@, stmt)]
    /\ UNCHANGED <<call, ret, rd, at>>

UpdateGet ==
    /\ wr.pc = "update.get"
    /\ ReadBack
    /\ UNCHANGED <<call, ret, rd, at>>

DestroyCall(id, hasTx) ==
    /\ wr.pc = IF hasTx THEN "ready" ELSE "idle"
    /\ wr.calls < MaxCalls
    /\ wr' = Called("Destroy", hasTx, NoStudio, id, "destroy.scenes")
    /\ UNCHANGED <<call, ret, db, tx, rd, at>>

\* tx.Exec(UPDATE scenes SET studio_id = null WHERE studio_id = ?)
DestroyScenes ==
    /\ wr.pc = "destroy.scenes"
    /\ IF NilReceiver(wr.tx) THEN Panic
       ELSE \E ok \in BOOLEAN :
                LET stmt == ClearScenesStatement(wr.id)
                IN  IF ~ok THEN Return(stmt, Nil, "error") /\ UNCHANGED <<db, tx>>
                    ELSE /\ Write([Cur EXCEPT !.scenes = Cleared(@, wr.id)])
                         /\ wr' = [wr EXCEPT !.pc = "destroy.scraped",
                                             !.stmts = Append(@, stmt)]
    /\ UNCHANGED <<call, ret, rd, at>>

\* tx.Exec(UPDATE scraped_items SET studio_id = null WHERE studio_id = ?)
DestroyScraped ==
    /\ wr.pc = "destroy.scraped"
    /\ IF NilReceiver(wr.tx) THEN Panic
       ELSE \E ok \in BOOLEAN :
                LET stmt == ClearScrapedStatement(wr.id)
                IN  IF ~ok THEN Return(stmt, Nil, "error") /\ UNCHANGED <<db, tx>>
                    ELSE /\ Write([Cur EXCEPT !.scraped = Cleared(@, wr.id)])
                         /\ wr' = [wr EXCEPT !.pc = "destroy.delete",
                                             !.stmts = Append(@, stmt)]
    /\ UNCHANGED <<call, ret, rd, at>>

\* executeDeleteQuery("studios", id, tx)
DestroyDelete ==
    /\ wr.pc = "destroy.delete"
    /\ IF ensureTx(wr.tx) = "panic" \/ NilReceiver(wr.tx) THEN Panic
       ELSE \E ok \in BOOLEAN :
                LET stmt == DeleteStatement(<<"studios">>, wr.id)
                IN  IF ~ok THEN Return(stmt, Nil, "error") /\ UNCHANGED <<db, tx>>
                    ELSE /\ Write([Cur EXCEPT !.studios = {r \in @ : r.id # <<wr.id>>}])
                         /\ wr' = [wr EXCEPT !.pc = "returned", !.deleted = TRUE,
                                             !.stmts = Append(@, stmt)]
    /\ UNCHANGED <<call, ret, rd, at>>

\* tx.Commit by the caller, once the call returned no error: the rows of the
\* transaction become the committed rows.
Commit ==
    /\ wr.pc = "returned"
    /\ wr.tx /\ wr.err = "nil"
    /\ db' = [studios |-> tx.studios, scenes |-> tx.scenes, scraped |-> tx.scraped,
              lastId |-> tx.lastId]
    /\ tx' = TxClosed
    /\ wr' = [WrIdle EXCEPT !.calls = wr.calls]
    /\ UNCHANGED <<call, ret, rd, at>>

\* The caller's next call in the same transaction.
Continue ==
    /\ wr.pc = "returned"
    /\ wr.tx /\ wr.err = "nil"
    /\ wr' = [WrIdle EXCEPT !.pc = "ready", !.calls = wr.calls]
    /\ UNCHANGED <<call, ret, db, tx, rd, at>>

\* The caller returns the error: the transaction is never committed.
Abandon ==
    /\ wr.pc = "returned"
    /\ ~wr.tx \/ wr.err # "nil"
    /\ tx' = TxClosed
    /\ wr' = [WrIdle EXCEPT !.calls = wr.calls]
    /\ UNCHANGED <<call, ret, db, rd, at>>

-----------------------------------------------------------------------------
(* The parts of the state a specification does not use *)

NoDb == [studios |-> {}, scenes |-> <<>>, scraped |-> <<>>, lastId |-> 0]
Off == [pc |-> "off"]

PureIdle ==
    /\ db = NoDb /\ tx = TxClosed /\ wr = Off /\ rd = Off /\ at = Off

PureFrame == UNCHANGED <<call, db, tx, wr, rd, at>>

-----------------------------------------------------------------------------
(* StudioQueryBuilder.Query: the reading unit of work *)

\* The reader between two requests.
RdIdle ==
    [pc |-> "idle", filter |-> Nil, stmts |-> <<>>,
     countAnswer |-> "none", idsAnswer |-> "none",
     countResult |-> 0, countErr |-> "nil", idsResult |-> <<>>, idsErr |-> "nil",
     items |-> <<>>, count |-> 0]

\* Query is called: the fragments are built, nothing has reached the store.
QueryCall(findFilter) ==
    /\ rd.pc = "idle"
    /\ rd' = [RdIdle EXCEPT !.pc = "count", !.filter = findFilter]
    /\ UNCHANGED <<call, ret, db, tx, wr, at>>

\* executeFindQuery, the count statement (against the committed rows).
FindCount ==
    /\ rd.pc = "count"
    /\ LET stmt == CountStatement(StudioQueryParts(rd.filter))
       IN  \E answer \in StoreCount(stmt, db.studios) :
               LET r == runCountQuery(answer)
               IN  rd' = [rd EXCEPT !.pc = "ids", !.stmts = Append(@, stmt),
                                    !.countAnswer = answer.err,
                                    !.countResult = r.result, !.countErr = r.err]
    /\ UNCHANGED <<call, ret, db, tx, wr, at>>

\* Where executeFindQuery goes once both statements have run: a failure of
\* either panics.
AfterFindM(countErr, idsErr) == IF countErr # "nil" THEN "panic" ELSE "hydrate"
AfterFind(countErr, idsErr) ==
    IF countErr # "nil" THEN "panic"
    ELSE IF idsErr # "nil" THEN "panic"
    ELSE "hydrate"

\* executeFindQuery, the id-list statement, and the two error checks.
FindIds ==
    /\ rd.pc = "ids"
    /\ LET stmt == IdsStatement(StudioQueryParts(rd.filter))
       IN  \E answer \in StoreIds(stmt, db.studios) :
               LET r == runIdsQuery(answer)
               IN  rd' = [rd EXCEPT !.pc = AfterFind(rd.countErr, r.err),
                                    !.stmts = Append(@, stmt),
                                    !.idsAnswer = answer.err,
                                    !.idsResult = r.result, !.idsErr = r.err]
    /\ UNCHANGED <<call, ret, db, tx, wr, at>>

\* One turn of the loop of Query: Find(id, nil), its error dropped, and the
\* studio (nil or not) appended.
Hydrate ==
    /\ rd.pc = "hydrate"
    /\ Len(rd.items) < Len(rd.idsResult)
    /\ LET id == rd.idsResult[Len(rd.items) + 1]
           stmt == FindStatement(id)
       IN  \E answer \in StoreRows(stmt, db.studios) :
               rd' = [rd EXCEPT !.stmts = Append(@, stmt),
                                !.items = Append(@, queryStudio(answer, db.studios).studio)]
    /\ UNCHANGED <<call, ret, db, tx, wr, at>>

QueryReturn ==
    /\ rd.pc = "hydrate"
    /\ Len(rd.items) = Len(rd.idsResult)
    /\ rd' = [rd EXCEPT !.pc = "returned", !.count = rd.countResult]
    /\ UNCHANGED <<call, ret, db, tx, wr, at>>

\* The next request.
QueryNext ==
    /\ rd.pc = "returned"
    /\ rd' = RdIdle
    /\ UNCHANGED <<call, ret, db, tx, wr, at>>

-----------------------------------------------------------------------------
(* Specification: getPagination on every filter of PaginationCalls *)

InitPage == call \in PaginationCalls /\ ret = <<>> /\ PureIdle

CallGetPagination ==
    /\ call.fn = "getPagination"
    /\ ret = <<>>
    /\ ret' = <<getPagination(call)>>
    /\ PureFrame

NextPage == CallGetPagination

SpecPage == InitPage /\ [][NextPage]_vars

\* C3: for every page and page size, absent ones included, getPagination emits
\* LIMIT L OFFSET O with L the page size clamped into [1,120] (25 when absent),
\* P the page (1 when absent or below 1) and O = (P-1) * L, never negative.
\* (O = (P-1) * L is stated by division, L being at least 1.)
C3_Pagination ==
    (call.fn = "getPagination" /\ ret # <<>>) =>
        LET p == ParsePagination(ret[1])
            want == IF call.PerPage = Nil THEN 25
                    ELSE IF Deref(call.PerPage) > 120 THEN 120
                    ELSE IF Deref(call.PerPage) < 1 THEN 1
                    ELSE Deref(call.PerPage)
            P == IF call.Page = Nil \/ Deref(call.Page) < 1 THEN 1 ELSE Deref(call.Page)
        IN  /\ p.limit = want
            /\ p.limit \in 1..120
            /\ p.offset >= 0
            /\ p.offset % p.limit = 0
            /\ p.offset \div p.limit = P - 1

\* The same statement on the pages whose offset fits Go's int: it holds there.
C3_PaginationInRange ==
    (call.fn = "getPagination" /\ ret # <<>>
        /\ (call.Page = Nil \/ Deref(call.Page) <= MaxInt \div PerPageLimit)) =>
        C3_Pagination

-----------------------------------------------------------------------------
(* Specification: getCriterionModifierBinding on every modifier and value *)

InitCriterion == call \in CriterionCalls /\ ret = <<>> /\ PureIdle

CallGetCriterionModifierBinding ==
    /\ call.fn = "getCriterionModifierBinding"
    /\ ret = <<>>
    /\ ret' = <<getCriterionModifierBinding(call.modifier, call.value)>>
    /\ PureFrame

NextCriterion == CallGetCriterionModifierBinding

SpecCriterion == InitCriterion /\ [][NextCriterion]_vars

\* C4: for every valid modifier and value the fragment holds as many "?"
\* placeholders as the returned argument count k: k = 1 for EQUALS, NOT_EQUALS,
\* GREATER_THAN and LESS_THAN, 0 for IS_NULL and NOT_NULL, and the number of
\* elements of the value for INCLUDES and EXCLUDES (0 for an empty collection,
\* 1 for a value that is no collection).
C4_PlaceholdersMatchArgs ==
    (call.fn = "getCriterionModifierBinding" /\ ret # <<>>
        /\ call.modifier \in {"EQUALS", "NOT_EQUALS", "GREATER_THAN", "LESS_THAN",
                              "IS_NULL", "NOT_NULL", "INCLUDES", "EXCLUDES"}) =>
        LET r == ret[1]
            elements == IF call.value.kind = "int" THEN 1 ELSE Len(call.value.elems)
            k == IF call.modifier \in {"IS_NULL", "NOT_NULL"} THEN 0
                 ELSE IF call.modifier \in {"INCLUDES", "EXCLUDES"} THEN elements
                 ELSE 1
        IN  /\ r.count = k
            /\ Count(r.sql, "?") = k

C4_Witness ==
    /\ call.fn = "getCriterionModifierBinding" /\ ret # <<>>
    /\ call.modifier = "INCLUDES"
    /\ call.value.kind = "[]string" /\ Len(call.value.elems) = 0
    /\ ret[1].sql = <<"IN ", "(", ")">>

-----------------------------------------------------------------------------
(* Specification: Query against a store that Create and Destroy change *)

FindQueries ==
    {<<>>, <<"a">>, <<"b">>, <<"a", " ", "b">>, <<"'">>, <<"\"", "a", "\"">>}

FindFilters ==
    {Nil} \cup
    {Ptr([Q |-> q, Page |-> pg, PerPage |-> pp, Sort |-> Nil, Direction |-> Nil]) :
         q \in {Nil} \cup {Ptr(x) : x \in FindQueries},
         pg \in {Nil, Ptr(2)},
         pp \in {Nil, Ptr(1)}}

FindStudios ==
    {Studio(0, Nil, "c", NullString(TRUE, n), NullString(FALSE, <<>>), 1, 1) :
         n \in {<<"a">>, <<"b">>}}

InitFind ==
    /\ call = Nil /\ ret = <<>> /\ at = Off
    /\ db = NoDb /\ tx = TxClosed /\ wr = WrIdle /\ rd = RdIdle

NextFind ==
    \/ \E f \in FindFilters : QueryCall(f)
    \/ FindCount
    \/ FindIds
    \/ Hydrate
    \/ QueryReturn
    \/ QueryNext
    \/ BeginTx
    \/ \E s \in FindStudios : CreateCall(s, TRUE)
    \/ CreateInsert
    \/ CreateGet
    \/ \E id \in 1..MaxStudios : DestroyCall(id, TRUE)
    \/ DestroyScenes
    \/ DestroyScraped
    \/ DestroyDelete
    \/ Commit
    \/ Abandon

SpecFind == InitFind /\ [][NextFind]_vars

\* The page size a filter resolves to.
PageSizeOf(findFilter) ==
    IF findFilter = Nil \/ Deref(findFilter).PerPage = Nil THEN 25
    ELSE IF Deref(Deref(findFilter).PerPage) > 120 THEN 120
    ELSE IF Deref(Deref(findFilter).PerPage) < 1 THEN 1
    ELSE Deref(Deref(findFilter).PerPage)

\* C1: every result Query returns has 0 <= len(items) <= perPage and
\* count >= len(items), also when creates and destroys of other units of work
\* fall between the count statement, the id-list statement and the lookups.
C1_ResultWithinCount ==
    rd.pc = "returned" =>
        /\ Len(rd.items) >= 0
        /\ Len(rd.items) <= PageSizeOf(rd.filter)
        /\ rd.count >= Len(rd.items)

\* The part of C1 that rests on LIMIT alone.
C1_ResultWithinPage ==
    rd.pc = "returned" => Len(rd.items) <= PageSizeOf(rd.filter)
\* C5: a find returns (ids, count) only when neither statement failed; when
\* either fails it panics and returns nothing; sql.ErrNoRows from either is
\* no failure and gives a zero count / an empty id list.
C5_NoPartialResult ==
    /\ rd.pc \in {"hydrate", "returned"} =>
           /\ rd.countAnswer \in {"nil", "ErrNoRows"}
           /\ rd.idsAnswer \in {"nil", "ErrNoRows"}
    /\ (rd.idsAnswer # "none" /\ (rd.countAnswer = "error" \/ rd.idsAnswer = "error")) =>
           rd.pc = "panic"
    /\ (rd.countAnswer \in {"nil", "ErrNoRows"} /\ rd.idsAnswer \in {"nil", "ErrNoRows"}) =>
           rd.pc # "panic"
    /\ rd.countAnswer = "ErrNoRows" => rd.countResult = 0
    /\ rd.idsAnswer = "ErrNoRows" => rd.idsResult = <<>>

\* The id-list statement failed after the count statement succeeded.
C5_Witness ==
    rd.pc = "panic" /\ rd.countAnswer = "nil" /\ rd.idsAnswer = "error"

\* C6: the search text reaches the store only as bound parameters: two search
\* strings of as many words give the same statement text, and no character of
\* the search string is part of the text.
C6_SearchTextOnlyBound ==
    (Len(rd.stmts) >= 1 /\ rd.filter # Nil /\ Deref(rd.filter).Q # Nil
        /\ Deref(Deref(rd.filter).Q) # <<>>) =>
        LET f == Deref(rd.filter)
            q == Deref(f.Q)
        IN  /\ \A q2 \in FindQueries \ {<<>>} :
                   Len(Split(q2, " ")) = Len(Split(q, " ")) =>
                       CountStatement(StudioQueryParts(Ptr([f EXCEPT !.Q = Ptr(q2)]))).text
                           = rd.stmts[1].text
            /\ \A i \in 1..Len(q) :
                   q[i] \in {"a", "b", "'"} => ~HasAtom(rd.stmts[1].text, q[i])

-----------------------------------------------------------------------------
(* Specification: the two statements executeFindQuery builds *)

AssembleCalls ==
    LET WhereFragments == {<<"studios.name LIKE ", "?">>, <<"scenes.rating IS NULL">>}
        HavingFragments == {<<"count(scenes.id) > ", "?">>, <<"count(scenes.id) < ", "?">>}
        SeqsUpTo(S, n) == UNION {[1..k -> S] : k \in 0..n}
    IN  [fn : {"executeFindQuery"},
         tableName : {<<"studios">>, <<"scenes">>},
         body : {selectDistinctIDs(<<"studios">>)},
         args : {<<>>, <<"%a%", 1>>},
         whereClauses : SeqsUpTo(WhereFragments, MaxClauses),
         havingClauses : SeqsUpTo(HavingFragments, MaxClauses),
         sortAndPagination : {getStudioSort(Nil) \o getPagination(EmptyFilter)}]

InitAssemble == call \in AssembleCalls /\ ret = <<>> /\ PureIdle

CallExecuteFindQuery ==
    /\ call.fn = "executeFindQuery"
    /\ ret = <<>>
    /\ ret' = <<[count |-> CountStatement(call), ids |-> IdsStatement(call)]>>
    /\ PureFrame

NextAssemble == CallExecuteFindQuery

SpecAssemble == InitAssemble /\ [][NextAssemble]_vars

RECURSIVE AndJoined(_)
AndJoined(fragments) ==
    IF Len(fragments) = 1 THEN fragments[1]
    ELSE AndJoined(SubSeq(fragments, 1, Len(fragments) - 1)) \o <<" AND ">>
             \o fragments[Len(fragments)]

\* C2: the count statement and the id-list statement are built from one body:
\* the WHERE fragments AND-joined in insertion order, GROUP BY <table>.id
\* (always), the HAVING fragments AND-joined; the count statement wraps the
\* body in SELECT COUNT(*), the id-list statement appends the sort and
\* pagination; both carry the same arguments.
C2_SameBody ==
    (call.fn = "executeFindQuery" /\ ret # <<>>) =>
        LET whereText == IF Len(call.whereClauses) = 0 THEN <<>>
                         ELSE <<" WHERE ">> \o AndJoined(call.whereClauses)
            havingText == IF Len(call.havingClauses) = 0 THEN <<>>
                          ELSE <<" HAVING ">> \o AndJoined(call.havingClauses)
            B == call.body \o whereText \o <<" GROUP BY ">> \o call.tableName
                     \o <<".id ">> \o havingText
        IN  /\ ret[1].count.text = <<"SELECT COUNT(*) as count FROM (">> \o B
                                       \o <<") as temp">>
            /\ ret[1].ids.text = B \o call.sortAndPagination
            /\ ret[1].count.args = call.args
            /\ ret[1].ids.args = call.args

C2_Witness ==
    /\ call.fn = "executeFindQuery" /\ ret # <<>>
    /\ Len(call.whereClauses) = 2 /\ Len(call.havingClauses) = 1
    /\ call.args # <<>>
    /\ HasAtom(ret[1].count.text, " AND ")

-----------------------------------------------------------------------------
(* Specification: Create, Update and Destroy, with and without a transaction *)

\* The studio the store starts with, two scenes and one scraped item that
\* may reference it.
FirstRow ==
    [id |-> <<1>>, image |-> <<"i1">>, checksum |-> <<"c1">>, name |-> << <<"a">> >>,
     url |-> << <<"u">> >>, created_at |-> <<1>>, updated_at |-> <<1>>]

\* What Update is called with: every kind of name, and the other fields all
\* empty, one of them set, or all of them set.
MutStudios ==
    LET MutOthers ==
            {<<Nil, "", NullString(FALSE, <<>>), 0>>,
             <<Ptr("i2"), "", NullString(FALSE, <<>>), 0>>,
             <<Nil, "c2", NullString(FALSE, <<>>), 0>>,
             <<Nil, "", NullString(TRUE, <<"v">>), 0>>,
             <<Nil, "", NullString(FALSE, <<>>), 2>>,
             <<Ptr("i2"), "c2", NullString(TRUE, <<"v">>), 2>>}
    IN  {Studio(id, o[1], o[2], name, o[3], 0, o[4]) :
             id \in {1, 2},
             name \in {NullString(v, s) : v \in BOOLEAN, s \in {<<>>, <<"b">>}},
             o \in MutOthers}

NewStudios ==
    {Studio(0, Ptr("i2"), "c2", name, NullString(FALSE, <<>>), 2, 2) :
         name \in {NullString(TRUE, <<"b">>), NullString(FALSE, <<"b">>)}}

InitMut ==
    /\ call = Nil /\ ret = <<>> /\ at = Off /\ rd = Off
    /\ db \in [studios : {{FirstRow}},
               scenes : [1..2 -> {NULL, <<1>>}],
               scraped : [1..1 -> {NULL, <<1>>}],
               lastId : {1}]
    /\ tx = TxClosed /\ wr = WrIdle

NextMut ==
    \/ BeginTx
    \/ \E s \in NewStudios, hasTx \in BOOLEAN : CreateCall(s, hasTx)
    \/ CreateInsert
    \/ CreateGet
    \/ \E s \in MutStudios, hasTx \in BOOLEAN : UpdateCall(s, hasTx)
    \/ UpdateExec
    \/ UpdateGet
    \/ \E id \in 1..MaxStudios, hasTx \in BOOLEAN : DestroyCall(id, hasTx)
    \/ DestroyScenes
    \/ DestroyScraped
    \/ DestroyDelete
    \/ Commit
    \/ Continue
    \/ Abandon

SpecMut == InitMut /\ [][NextMut]_vars

\* C8: Create, Update and Destroy called with no transaction end in a fatal
\* fault: the call never returns, neither a result nor an error, and no
\* statement reaches the store.
C8_NoTxIsFatal ==
    (wr.op \in {"Create", "Update", "Destroy"} /\ ~wr.tx) =>
        /\ wr.stmts = <<>>
        /\ wr.pc # "returned"
        /\ wr.result = Nil /\ wr.err = "nil"
        /\ wr.op \in {"Create", "Update"} => wr.pc = "panic"
        /\ wr.op = "Destroy" => wr.pc \in {"destroy.scenes", "panic"}

C8_Witness ==
    wr.op = "Destroy" /\ ~wr.tx /\ wr.pc = "panic" /\ wr.stmts = <<>>

\* C9: Destroy issues the DELETE of the studio only after both statements that
\* null the references to it (scenes, scraped items) succeeded in the same
\* transaction; when either fails, its error is returned and the DELETE is
\* never issued; once the row is deleted, no scene and no scraped item of the
\* transaction references the id.
C9_ReferencesClearedFirst ==
    wr.op = "Destroy" =>
        /\ \A k \in 1..Len(wr.stmts) :
               wr.stmts[k].text[1] = "DELETE FROM " =>
                   /\ k = 3 /\ wr.tx
                   /\ wr.stmts[1].text[1]
                          = "UPDATE scenes SET studio_id = null WHERE studio_id = "
                   /\ wr.stmts[2].text[1]
                          = "UPDATE scraped_items SET studio_id = null WHERE studio_id = "
                   /\ \A j \in 1..3 : wr.stmts[j].args = <<wr.id>>
        /\ (wr.pc = "returned" /\ Len(wr.stmts) < 3) => (wr.err # "nil" /\ ~wr.deleted)
        /\ wr.deleted =>
               /\ \A i \in DOMAIN tx.scenes : tx.scenes[i] # <<wr.id>>
               /\ \A i \in DOMAIN tx.scraped : tx.scraped[i] # <<wr.id>>
               /\ \A r \in tx.studios : r.id # <<wr.id>>

\* The studio is deleted in the transaction while the committed rows still
\* hold a scene and a scraped item that referenced it.
C9_Witness ==
    /\ wr.op = "Destroy" /\ wr.deleted /\ wr.pc = "returned" /\ wr.err = "nil"
    /\ \E i \in DOMAIN db.scenes : db.scenes[i] = <<wr.id>>
    /\ \E i \in DOMAIN db.scraped : db.scraped[i] = <<wr.id>>

StudioColumns == {"image", "checksum", "name", "url", "created_at", "updated_at"}

\* The columns of a Studio whose field is not empty, and what each is set to.
NonEmptyColumns(s) ==
    {c \in StudioColumns :
         \/ c = "image" /\ s.Image # <<>>
         \/ c = "checksum" /\ s.Checksum # ""
         \/ c = "name" /\ s.Name.Valid
         \/ c = "url" /\ s.URL.Valid
         \/ c = "created_at" /\ s.CreatedAt # 0
         \/ c = "updated_at" /\ s.UpdatedAt # 0}

SuppliedValue(s, c) ==
    CASE c = "image" -> <<s.Image[1]>>
      [] c = "checksum" -> <<s.Checksum>>
      [] c = "name" -> <<s.Name.String>>
      [] c = "url" -> <<s.URL.String>>
      [] c = "created_at" -> <<s.CreatedAt>>
      [] c = "updated_at" -> <<s.UpdatedAt>>

\* The UPDATE of Update as one step of the transaction.
UpdateStep ==
    (wr.pc = "update.exec" /\ wr'.pc = "update.get") =>
        LET s == wr.studio
        IN  /\ NonEmptyColumns(s) # {}
            /\ {r.id : r \in tx'.studios} = {r.id : r \in tx.studios}
            /\ \A r \in tx.studios : \E r2 \in tx'.studios :
                   /\ r2.id = r.id
                   /\ \A c \in StudioColumns :
                          r2[c] = IF r.id = <<s.ID>> /\ c \in NonEmptyColumns(s)
                                  THEN SuppliedValue(s, c)
                                  ELSE r[c]
            /\ tx'.scenes = tx.scenes /\ tx'.scraped = tx.scraped
            /\ db' = db

\* What Update returns, and the keys of partial mode for the same Studio.
UpdateResult ==
    wr.op = "Update" =>
        /\ (wr.pc = "returned" /\ wr.err = "nil") =>
               /\ \E r \in tx.studios :
                      /\ r.id = <<wr.studio.ID>>
                      /\ wr.result = <<[ID |-> r.id[1],
                                        Image |-> r.image,
                                        Checksum |-> r.checksum[1],
                                        Name |-> [Valid |-> r.name # <<>>,
                                                  String |-> IF r.name = <<>> THEN <<>>
                                                             ELSE r.name[1]],
                                        URL |-> [Valid |-> r.url # <<>>,
                                                 String |-> IF r.url = <<>> THEN <<>>
                                                            ELSE r.url[1]],
                                        CreatedAt |-> r.created_at[1],
                                        UpdatedAt |-> r.updated_at[1]]>>
        /\ SetKeys(<<"SET ">> \o SQLGenKeysPartial(StudioFields(wr.studio)) \o <<" WHERE">>)
               = {"checksum", "name", "url", "created_at", "updated_at"}
                     \cup (IF wr.studio.Image # <<>> THEN {"image"} ELSE {})

\* C10: Update writes exactly the columns whose field is non-empty (non-empty
\* string, valid nullable, non-zero timestamp, non-nil slice) and leaves the
\* other columns, the id and the other rows as they were; in partial mode
\* every non-id field of a known type is written whatever its value; the
\* entity returned is the row as read back after the write.
C10_UpdateWritesNonEmpty == [][UpdateStep]_vars /\ []UpdateResult

\* Update of the first studio set a valid, empty name and nothing else that
\* the stored row did not already hold.
C10_Witness ==
    /\ wr.op = "Update" /\ wr.pc = "returned" /\ wr.err = "nil"
    /\ wr.studio.Name = NullString(TRUE, <<>>) /\ wr.studio.Checksum = ""
    /\ wr.result # <<>>
    /\ wr.result[1].Name = NullString(TRUE, <<>>) /\ wr.result[1].Checksum = "c1"

-----------------------------------------------------------------------------
(* Auto-tagging: the catalog of the integration test and the task *)

MaxRuns == 2

\* strings.ToLower
ToLower(s) ==
    LET UpperCase == <<"A", "B", "C", "D", "E", "F", "G", "H", "I", "J", "K", "L", "M",
                       "N", "O", "P", "Q", "R", "S", "T", "U", "V", "W", "X", "Y", "Z">>
        LowerCase == <<"a", "b", "c", "d", "e", "f", "g", "h", "i", "j", "k", "l", "m",
                       "n", "o", "p", "q", "r", "s", "t", "u", "v", "w", "x", "y", "z">>
    IN  [i \in 1..Len(s) |->
             IF \E k \in 1..Len(UpperCase) : UpperCase[k] = s[i]
             THEN LowerCase[IndexOf(UpperCase, s[i])]
             ELSE s[i]]

\* strings.Replace(s, old, new, -1) for a one-character old
Replace(s, old, new) == Join(Split(s, old), new)

testName == <<"F", "o", "o", "'", "s", " ", "B", "a", "r">>
testExtension == <<".", "m", "p", "4">>
testSeparators == <<".", "-", "_", " ">>

generateNamePatterns(name, separator) ==
    LET Aaa == <<"a", "a", "a">>
        Bbb == <<"b", "b", "b">>
        Dir == <<"d", "i", "r">>
        Slash == <<"/">>
        Backslash == <<"\\">>
    IN
    <<name \o <<separator>> \o Aaa \o testExtension,
      Aaa \o <<separator>> \o name \o testExtension,
      Aaa \o <<separator>> \o name \o <<separator>> \o Bbb \o testExtension,
      Dir \o Slash \o name \o <<separator>> \o Aaa \o testExtension,
      Dir \o Backslash \o name \o <<separator>> \o Aaa \o testExtension,
      name \o <<separator>> \o Aaa \o Slash \o Dir \o Slash \o Bbb \o testExtension,
      name \o <<separator>> \o Aaa \o Backslash \o Dir \o Backslash \o Bbb \o testExtension,
      Dir \o Slash \o name \o <<separator>> \o Slash \o Aaa \o testExtension,
      Dir \o Backslash \o name \o <<separator>> \o Backslash \o Aaa \o testExtension>>

generateFalseNamePattern(name, separator) ==
    LET splitted == Split(name, " ")
        Aaa == <<"a", "a", "a">>
    IN  splitted[1] \o <<separator>> \o Aaa \o <<separator>> \o splitted[2] \o testExtension

\* createScene: the title is the path exactly on the scenes expected to match.
createScene(name, expectedResult) ==
    [Path |-> name,
     Title |-> IF expectedResult THEN NullString(TRUE, name) ELSE NullString(FALSE, <<>>)]

RECURSIVE scenePatterns(_)
\* the patterns of the first k separators, in the order createScenes appends them
scenePatterns(k) ==
    IF k = 0 THEN <<>>
    ELSE LET separator == testSeparators[k]
         IN  scenePatterns(k - 1)
                 \o generateNamePatterns(testName, separator)
                 \o generateNamePatterns(ToLower(testName), separator)
                 \o (IF separator # " "
                     THEN generateNamePatterns(Replace(testName, " ", <<separator>>),
                                               separator)
                     ELSE <<>>)

\* createScenes: the scenes of the store once populateDB has committed.
createScenes ==
    LET yes == scenePatterns(Len(testSeparators))
        falseScenePatterns ==
            [k \in 1..Len(testSeparators) |->
                 generateFalseNamePattern(testName, testSeparators[k])]
    IN  [i \in 1..Len(yes) |-> createScene(yes[i], TRUE)]
            \o [i \in 1..Len(falseScenePatterns) |->
                    createScene(falseScenePatterns[i], FALSE)]

\* The recognized separators.
Separators == {".", "-", "_", " "}

\* The Entity Name Pattern Set: the name, and the name with its spaces
\* replaced by each separator; case is folded when comparing.
NamePatternSetM(name) == {Replace(name, " ", <<sep>>) : sep \in Separators}
NamePatternSet(name) ==
    {ToLower(Replace(name, " ", <<sep>>)) : sep \in Separators}

\* matches(entityName, filePath): some variant of the name occurs in the path
\* with the start or end of the path, a separator or a path delimiter on
\* either side.
matches(entityName, filePath) ==
    LET Delimiters == Separators \cup {"/", "\\"}
    IN
    \E p \in NamePatternSet(entityName) :
        \E i \in 1..(Len(filePath) - Len(p) + 1) :
            LET last == i + Len(p) - 1
            IN  /\ ToLower(SubSeq(filePath, i, last)) = p
                /\ i = 1 \/ filePath[i - 1] \in Delimiters
                /\ last = Len(filePath) \/ filePath[last + 1] \in Delimiters

EntityKinds == {"performer", "studio", "tag"}

AtIdle(kind) ==
    [pc |-> "idle", kind |-> kind, name |-> testName, i |-> 0,
     links |-> [i \in 1..Len(createScenes) |-> 0], wg |-> 0, runs |-> 0]

\* wg.Add(1); task.Start(&wg): the task loads the scenes.
TaskStart ==
    /\ at.pc \in {"idle", "done"}
    /\ at.runs < MaxRuns
    /\ at' = [at EXCEPT !.pc = "running", !.i = 1, !.wg = 1, !.runs = @ + 1]
    /\ UNCHANGED <<call, ret, db, tx, wr, rd>>

\* One scene of the task: the association is created when the path matches
\* and the scene is not linked to the entity yet.
TaskScene ==
    /\ at.pc = "running"
    /\ at.i <= Len(createScenes)
    /\ at' = [at EXCEPT
                  !.i = @ + 1,
                  !.links[at.i] =
                      IF matches(at.name, createScenes[at.i].Path) /\ @ = 0
                      THEN @ + 1
                      ELSE @]
    /\ UNCHANGED <<call, ret, db, tx, wr, rd>>

\* wg.Done(), and Start returns.
TaskDone ==
    /\ at.pc = "running"
    /\ at.i > Len(createScenes)
    /\ at' = [at EXCEPT !.pc = "done", !.wg = 0]
    /\ UNCHANGED <<call, ret, db, tx, wr, rd>>

InitTag ==
    /\ call = Nil /\ ret = <<>>
    /\ db = NoDb /\ tx = TxClosed /\ wr = Off /\ rd = Off
    /\ at \in {AtIdle(kind) : kind \in EntityKinds}

NextTag == TaskStart \/ TaskScene \/ TaskDone

SpecTag == InitTag /\ [][NextTag]_vars

\* C7: once the auto-tag task of an entity has run to completion, however
\* many times, and as soon as Start has returned, the scenes linked to the
\* entity are exactly the scenes the test expects to match (the name as a
\* whole token, in any of its written forms), each linked once; a scene whose
\* path holds the two halves of the name around another token is never
\* linked, at any moment.
C7_LinksExactlyWholeTokens ==
    /\ at.pc = "done" =>
           /\ at.wg = 0
           /\ \A i \in 1..Len(createScenes) :
                  at.links[i] = IF createScenes[i].Title.String = createScenes[i].Path
                                THEN 1
                                ELSE 0
    /\ \A i \in 1..Len(createScenes) :
           createScenes[i].Title.String # createScenes[i].Path => at.links[i] = 0

\* The task has run twice: a lower-case scene is linked once, a decoy is not.
C7_Witness ==
    /\ at.pc = "done" /\ at.runs = 2
    /\ \E i \in 1..Len(createScenes) :
           /\ createScenes[i].Path = ToLower(createScenes[i].Path)
           /\ createScenes[i].Title.Valid
           /\ at.links[i] = 1
    /\ \E i \in 1..Len(createScenes) :
           ~createScenes[i].Title.Valid /\ at.links[i] = 0

-----------------------------------------------------------------------------
(* Specification: Create, then Find by the returned id *)

RoundStudios ==
    {Studio(id, image, checksum, name, NullString(image # Nil, <<"u">>), createdAt, 2) :
         id \in {0},
         image \in {Nil, Ptr("i1")},
         checksum \in {"", "c1"},
         name \in {NullString(v, s) : v \in BOOLEAN, s \in {<<>>, <<"b">>}},
         createdAt \in {1}}

FindIdle ==
    [pc |-> "idle", created |-> NoStudio, returned |-> Nil, id |-> 0,
     result |-> Nil, err |-> "nil"]

\* Create returned no error: the caller holds what it passed and what it got.
CreateReturned ==
    /\ rd.pc \in {"idle", "found"}
    /\ wr.pc = "returned" /\ wr.op = "Create" /\ wr.err = "nil"
    /\ rd' = [FindIdle EXCEPT !.pc = "kept", !.created = wr.studio,
                              !.returned = wr.result, !.id = Deref(wr.result).ID]
    /\ UNCHANGED <<call, ret, db, tx, wr, at>>

\* Find(id, tx): in the transaction of the Create when hasTx, on the
\* committed rows once it is committed otherwise.
Find(hasTx) ==
    /\ rd.pc = "kept"
    /\ IF hasTx THEN tx.open ELSE ~tx.open
    /\ LET rows == IF hasTx THEN tx.studios ELSE db.studios
       IN  \E answer \in StoreRows(FindStatement(rd.id), rows) :
               LET found == queryStudio(answer, rows)
               IN  rd' = [rd EXCEPT !.pc = "found", !.result = found.studio,
                                    !.err = found.err]
    /\ UNCHANGED <<call, ret, db, tx, wr, at>>

\* A later call of the transaction failed: the caller returns the error
\* without committing, and the studio it held was never stored.
Rollback ==
    /\ wr.pc = "returned"
    /\ wr.err # "nil"
    /\ tx' = TxClosed
    /\ wr' = [WrIdle EXCEPT !.calls = wr.calls]
    /\ rd' = FindIdle
    /\ UNCHANGED <<call, ret, db, at>>

InitRound ==
    /\ call = Nil /\ ret = <<>> /\ at = Off
    /\ db = NoDb /\ tx = TxClosed /\ wr = WrIdle /\ rd = FindIdle

NextRound ==
    \/ BeginTx
    \/ \E s \in RoundStudios : CreateCall(s, TRUE)
    \/ CreateInsert
    \/ CreateGet
    \/ CreateReturned
    \/ \E hasTx \in BOOLEAN : Find(hasTx)
    \/ Commit
    \/ Continue
    \/ Rollback

SpecRound == InitRound /\ [][NextRound]_vars

-----------------------------------------------------------------------------
(* Specification: getSearchBinding and getSort on every input *)

MaxQuery == 3

\* getSearchBinding: the clause with its placeholders, and the patterns bound
\* to them.
getSearchBinding(columns, q, not) ==
    LET notStr == IF not THEN <<" NOT ">> ELSE <<>>
        binaryType == IF not THEN <<" AND ">> ELSE <<" OR ">>
        queryWords == Split(q, " ")
        trimmedQuery == Trim(q, {"\""})
        searched == IF trimmedQuery = q THEN queryWords ELSE <<trimmedQuery>>
        n == Len(columns)
        likeClauses == [k \in 1..(Len(searched) * n) |->
                            <<columns[((k - 1) % n) + 1]>> \o notStr \o <<" LIKE ", "?">>]
        args == [k \in 1..(Len(searched) * n) |->
                     <<"%">> \o searched[((k - 1) \div n) + 1] \o <<"%">>]
    IN  [sql |-> <<"(">> \o Join(likeClauses, binaryType) \o <<")">>, args |-> args]

FragmentCalls ==
    [fn : {"getSearchBinding"},
     columns : {<<"studios.name">>, <<"scenes.title", "scenes.details">>},
     q : UNION {[1..k -> {"a", "b", " ", "\""}] : k \in 0..MaxQuery},
     not : BOOLEAN]
    \cup
    [fn : {"getSort"},
     sort : {<<"name">>, <<"title">>, <<"rating">>, <<"filesize">>, <<"random">>,
             <<"scenes", "_", "count">>},
     direction : {"ASC", "DESC", "asc", "", "SIDEWAYS"},
     tableName : {<<"scenes">>, <<"scene_markers">>, <<"studios">>}]

InitFragment == call \in FragmentCalls /\ ret = <<>> /\ PureIdle

CallGetSearchBinding ==
    /\ call.fn = "getSearchBinding"
    /\ ret = <<>>
    /\ ret' = <<getSearchBinding(call.columns, call.q, call.not)>>
    /\ PureFrame

CallGetSort ==
    /\ call.fn = "getSort"
    /\ ret = <<>>
    /\ ret' = <<getSort(call.sort, call.direction, call.tableName)>>
    /\ PureFrame

NextFragment == CallGetSearchBinding \/ CallGetSort

SpecFragment == InitFragment /\ [][NextFragment]_vars

\* The clause and the patterns of a search of these words, as the spec words
\* them: one LIKE per (word, column), word-major, joined by OR, or by AND with
\* NOT LIKE when negated.
ClausesOf(words, columns, not) ==
    LET n == Len(columns)
        clauses == [k \in 1..(Len(words) * n) |->
                        <<columns[((k - 1) % n) + 1]>>
                            \o (IF not THEN <<" NOT ">> ELSE <<>>) \o <<" LIKE ", "?">>]
    IN  [sql |-> <<"(">> \o Join(clauses, IF not THEN <<" AND ">> ELSE <<" OR ">>)
                     \o <<")">>,
         args |-> [k \in 1..(Len(words) * n) |->
                       <<"%">> \o words[((k - 1) \div n) + 1] \o <<"%">>]]

\* C12: the query is searched as one exact phrase if and only if it is wrapped
\* in quotation marks, a quote at both ends: then there is one LIKE clause per
\* column, each bound to %phrase% with the wrapping quotes stripped; every
\* other query is searched word by word.
C12_PhraseIffWrapped ==
    (call.fn = "getSearchBinding" /\ ret # <<>>) =>
        LET q == call.q
            wrapped == Len(q) >= 2 /\ q[1] = "\"" /\ q[Len(q)] = "\""
        IN  IF wrapped
            THEN ret[1] = ClausesOf(<<SubSeq(q, 2, Len(q) - 1)>>, call.columns, call.not)
            ELSE ret[1] = ClausesOf(Split(q, " "), call.columns, call.not)

\* The same for the queries with no quotation mark inside the ends and with
\* none at all or one at each end: it holds there.
C12_PhraseOfCleanQueries ==
    (call.fn = "getSearchBinding" /\ ret # <<>>
        /\ LET q == call.q
               inner == IF Len(q) >= 2 /\ q[1] = "\"" /\ q[Len(q)] = "\""
                        THEN SubSeq(q, 2, Len(q) - 1)
                        ELSE q
           IN  \A i \in 1..Len(inner) : inner[i] # "\"") =>
        C12_PhraseIffWrapped

\* C13: an unquoted query is split on whitespace into words; there is exactly
\* one LIKE clause per (word, column), word-major then column order, the i-th
\* argument being %word% of the i-th clause, joined by OR, or by AND as NOT
\* LIKE when negated. Every bound pattern holds a non-empty word, so a clause
\* that is not negated never matches a name in which no word of the query
\* occurs.
C13_WordsOfUnquoted ==
    (call.fn = "getSearchBinding" /\ ret # <<>>
        /\ (call.q = <<>> \/ (call.q[1] # "\"" /\ call.q[Len(call.q)] # "\""))) =>
        LET NonEmpty(w) == Len(w) > 0
            words == SelectSeq(Split(call.q, " "), NonEmpty)
            args == ret[1].args
        IN  /\ ret[1] = ClausesOf(words, call.columns, call.not)
            /\ \A i \in 1..Len(args) : Len(args[i]) > 2
            /\ ~call.not =>
                   \A name \in {<<"a">>, <<"b">>, <<"c">>} :
                       (\E i \in 1..Len(args) :
                            Contains(name, SubSeq(args[i], 2, Len(args[i]) - 1)))
                           => \E k \in 1..Len(words) : Contains(name, words[k])

\* The same for the queries whose words are separated by single spaces, with
\* no space at either end: it holds there.
C13_WordsOfSingleSpaced ==
    (call.fn = "getSearchBinding"
        /\ \A k \in 1..Len(Split(call.q, " ")) : Len(Split(call.q, " ")[k]) > 0) =>
        C13_WordsOfUnquoted

\* C15: on scenes and scene_markers every ordering fragment, for every sort
\* key and direction, is the primary sort expression followed by the
\* tie-break columns of the table; a direction that is neither ASC nor DESC
\* is read as ASC.
C15_TieBreaksAfterPrimary ==
    (call.fn = "getSort" /\ ret # <<>>) =>
        LET fragment == ret[1]
            direction == IF call.direction \in {"ASC", "DESC"} THEN call.direction
                         ELSE "ASC"
            tieBreak ==
                IF call.tableName = <<"scenes">>
                THEN <<", bitrate DESC, framerate DESC, rating DESC, duration DESC">>
                ELSE IF call.tableName = <<"scene_markers">>
                THEN <<", scene_markers.scene_id ASC, scene_markers.seconds ASC">>
                ELSE <<>>
            primary == SubSeq(fragment, 1, Len(fragment) - Len(tieBreak))
        IN  /\ Len(primary) >= 2
            /\ primary[Len(primary)] = direction
            /\ fragment = primary \o tieBreak

\* The same for the sort keys that are a plain column: it holds there.
C15_TieBreaksOfColumns ==
    (call.fn = "getSort" /\ call.sort \in {<<"name">>, <<"title">>, <<"rating">>}) =>
        C15_TieBreaksAfterPrimary

-----------------------------------------------------------------------------
(* Further properties of getCriterionModifierBinding and of Query *)

\* C14: for every modifier that is not one of the eight recognized ones the
\* rendering is the fallback "= ?" with argument count 1, and the call is
\* logged as unexpected.
C14_FallbackIsLogged ==
    (call.fn = "getCriterionModifierBinding" /\ ret # <<>>
        /\ call.modifier \notin {"EQUALS", "NOT_EQUALS", "GREATER_THAN", "LESS_THAN",
                                 "IS_NULL", "NOT_NULL", "INCLUDES", "EXCLUDES"}) =>
        /\ ret[1].sql = <<"= ", "?">>
        /\ ret[1].count = 1
        /\ ret[1].logged

\* The fallback itself, without the logging: it holds.
C14_FallbackFragment ==
    (call.fn = "getCriterionModifierBinding" /\ ret # <<>>
        /\ call.modifier \notin {"EQUALS", "NOT_EQUALS", "GREATER_THAN", "LESS_THAN",
                                 "IS_NULL", "NOT_NULL", "INCLUDES", "EXCLUDES"}) =>
        /\ ret[1].sql = <<"= ", "?">>
        /\ ret[1].count = 1

\* C16: every item Query returns is a hydrated studio, never nil, and the
\* items are in the order of the id list, also when a studio is destroyed or
\* a lookup fails between the id-list statement and the Find of the id.
C16_ItemsHydrated ==
    rd.pc = "returned" =>
        /\ Len(rd.items) = Len(rd.idsResult)
        /\ \A i \in 1..Len(rd.items) :
               /\ rd.items[i] # <<>>
               /\ rd.items[i][1].ID = rd.idsResult[i]

\* The items that are not nil are in the order of the id list: it holds.
C16_ItemsInOrder ==
    rd.pc = "returned" =>
        /\ Len(rd.items) = Len(rd.idsResult)
        /\ \A i \in 1..Len(rd.items) :
               rd.items[i] # <<>> => rd.items[i][1].ID = rd.idsResult[i]

=============================================================================
